---------------------------- MODULE Spec2Model ----------------------------
(***************************************************************************)
(* A model of mkv_cruncher: the stream-selection functions of src/main.rs  *)
(* (analyze_video, analyze_sub_tracks, analyze_audio_tracks,               *)
(* analyze_attachments), the probe of src/ffprobe, and the per-file        *)
(* pipeline of Cruncher::start_cruncher, with the ffmpeg argument list it  *)
(* builds and main's clean-up.                                             *)
(*                                                                         *)
(* Strings that the code lower-cases, searches or orders (titles,          *)
(* languages) are sequences of ASCII codes, so that to_lowercase, contains *)
(* and the byte-wise order of String are computed, not assumed.  Strings   *)
(* that the code only compares for equality (codec names, codec types) are *)
(* TLA+ strings.                                                           *)
(***************************************************************************)
EXTENDS Integers, Sequences, FiniteSets, TLC

VARIABLES
    cfg,              \* Cruncher's configuration: intermediate, preload_mode, transcode_mode
    pc,               \* position of the control thread
    mkv,              \* the MkvFile under analysis
    transcode_video,  \* start_cruncher's local of that name
    kept_subs,        \* result of analyze_sub_tracks
    subs_after_dedup, \* analyze_sub_tracks' preserved_streams right after dedup_by_key
    kept_audio,       \* result of analyze_audio_tracks
    kept_attachments, \* result of analyze_attachments
    file_idx,         \* 1-based position of the loop over self.files
    file_buffer,      \* start_cruncher's file_buffer for the current file
    input_arg,        \* what follows "-i" in ffmpeg_arguments: "pipe:0", "path", or "none"
    ffmpeg_arguments, \* start_cruncher's ffmpeg_arguments for the current file
    ffmpeg,           \* the encoder child process of the current file
    writer,           \* per file, the thread spawned to feed the encoder's stdin
    inter_dir,        \* intermediate directory: file name -> contents or NoFile
    out_dir,          \* output directory: file name -> contents or NoFile
    fin,              \* what the last run of the finalizing code (lines 293-309) did
    hist              \* per file, how far the pipeline went and what failed

selVars == <<mkv, kept_subs, subs_after_dedup, kept_audio, kept_attachments>>
runVars ==
    <<file_idx, file_buffer, input_arg, ffmpeg_arguments, ffmpeg, writer, inter_dir, out_dir,
      fin, hist>>
vars == <<cfg, pc, transcode_video, selVars, runVars>>

---------------------------------------------------------------------------
(* Strings as sequences of ASCII codes.                                    *)

Str_jap == <<106, 97, 112>>  \* "jap"
Str_jpn == <<106, 112, 110>>  \* "jpn"
Str_eng == <<101, 110, 103>>  \* "eng"
Str_enm == <<101, 110, 109>>  \* "enm"
Str_spa == <<115, 112, 97>>  \* "spa"
Str_und == <<117, 110, 100>>  \* "und"
Str_chi == <<99, 104, 105>>  \* "chi"
Str_fre == <<102, 114, 101>>  \* "fre"
Str_english == <<101, 110, 103, 108, 105, 115, 104>>  \* "english"
Str_commentary == <<99, 111, 109, 109, 101, 110, 116, 97, 114, 121>>  \* "commentary"
Str_description == <<100, 101, 115, 99, 114, 105, 112, 116, 105, 111, 110>>  \* "description"
Str_s_and_s == <<115, 38, 115>>  \* "s&s"
Str_signs == <<115, 105, 103, 110, 115>>  \* "signs"
Str_songs == <<115, 111, 110, 103, 115>>  \* "songs"
Str_spain == <<115, 112, 97, 105, 110>>  \* "spain"
Str_closed == <<99, 108, 111, 115, 101, 100>>  \* "closed"
Str_captions == <<99, 97, 112, 116, 105, 111, 110, 115>>  \* "captions"
Str_closed_captions == <<99, 108, 111, 115, 101, 100, 32, 99, 97, 112, 116, 105, 111, 110, 115>>  \* "closed captions"
T_Signs == <<83, 105, 103, 110, 115>>  \* "Signs"
T_English == <<69, 110, 103, 108, 105, 115, 104>>  \* "English"
T_EngDub == <<69, 110, 103, 32, 100, 117, 98>>  \* "Eng dub"
T_Commentary == <<67, 111, 109, 109, 101, 110, 116, 97, 114, 121>>  \* "Commentary"
T_Full == <<70, 117, 108, 108>>  \* "Full"
Str_ttf == <<116, 116, 102>>  \* "ttf"
Str_otf == <<111, 116, 102>>  \* "otf"
Str_dot == <<46>>  \* "."
F_a_ttf == <<97, 46, 116, 116, 102>>  \* "a.ttf"
F_A_TTF == <<65, 46, 84, 84, 70>>  \* "A.TTF"
F_b_otf == <<98, 46, 111, 116, 102>>  \* "b.otf"
F_cover_jpg == <<99, 111, 118, 101, 114, 46, 106, 112, 103>>  \* "cover.jpg"
F_font == <<102, 111, 110, 116>>  \* "font"

\* str::to_lowercase on ASCII: 'A'..'Z' (65..90) move to 'a'..'z'.
to_lowercase(s) ==
    [i \in 1..Len(s) |-> IF s[i] \in 65..90 THEN s[i] + 32 ELSE s[i]]

\* str::contains: w occurs in s as a contiguous substring.
contains(s, w) ==
    \E i \in 0..(Len(s) - Len(w)) : SubSeq(s, i + 1, i + Len(w)) = w

\* Ord for String: byte-wise lexicographic order, a proper prefix first.
StrLeq(a, b) ==
    \/ /\ Len(a) <= Len(b)
       /\ \A i \in 1..Len(a) : a[i] = b[i]
    \/ \E i \in 1..Len(a) :
          /\ i <= Len(b)
          /\ a[i] < b[i]
          /\ \A j \in 1..(i - 1) : a[j] = b[j]

---------------------------------------------------------------------------
(* Program constants, src/main.rs lines 576-603.                           *)

ASS_CODEC == "ass"
TARGET_CODEC == "av1"
OK_SUB_LANGS == {Str_eng, Str_enm, Str_jpn, Str_spa, Str_und}
BAD_SUB_WORDS ==
    <<Str_s_and_s, Str_signs, Str_songs, Str_spain, Str_closed, Str_captions,
      Str_closed_captions, Str_commentary>>
LOSSLESS_AUDIO_CODECS == {"dts", "flac", "truehd", "pcm_s24le"}

\* File sizes are counted in blocks of 512 bytes (rounded down).  Both
\* thresholds the code compares a size with are multiples of 512, so
\* "size < threshold" is the same on bytes and on blocks, and every number
\* stays inside TLC's integers.
\* ByteSize::mib(600) = 600 * 1024 * 1024 bytes = 600 * 2048 blocks.
SmallFileBlocks == 600 * 2048
\* ByteSize::gb(3) = 3 * 1000^3 bytes = 3 * 1953125 blocks.
PreloadLimitBlocks == 3 * ((1000 * 1000 * 1000) \div 512)

---------------------------------------------------------------------------
(* Metadata model, src/ffprobe/mkv.rs.                                     *)

\* A Stream: codec plus the CodecType variant with its fields.
Stream(kind, codec, language, title, channels) ==
    [kind |-> kind, codec |-> codec, language |-> language, title |-> title,
     channels |-> channels]

codec(s) == s.codec
channels(s) == IF s.kind = "audio" THEN s.channels ELSE 0
\* For an attachment the title field holds its filename.
stream_title(s) == s.title
stream_language(s) == IF s.kind = "attachment" THEN <<>> ELSE s.language

streams_of_kind(m, kind) == SelectSeq(m.streams, LAMBDA s : s.kind = kind)
audio_streams(m) == streams_of_kind(m, "audio")
video_streams(m) == streams_of_kind(m, "video")
subtitles_streams(m) == streams_of_kind(m, "subtitle")
attachments(m) == streams_of_kind(m, "attachment")

enumerate_from_one(seq) == [k \in 1..Len(seq) |-> <<k, seq[k]>>]

\* Iterator::enumerate: 0-based positions paired with the elements.
enumerate(seq) == [k \in 1..Len(seq) |-> <<k - 1, seq[k]>>]

---------------------------------------------------------------------------
(* Stream Selector, src/main.rs lines 364-544.                             *)

analyze_video_ignoring_size(m) ==
    video_streams(m)[1].codec # TARGET_CODEC

analyze_video_by_size_only(m) ==
    ~(m.size < SmallFileBlocks)

analyze_video(m) ==
    IF m.size < SmallFileBlocks
    THEN FALSE
    ELSE video_streams(m)[1].codec # TARGET_CODEC

\* transcode_video of start_cruncher, lines 90-94.
transcode_video_for(mode, m) ==
    CASE mode = "Auto" -> analyze_video(m)
      [] mode = "Force" -> TRUE
      [] mode = "Never" -> FALSE

\* The key closures: of analyze_sub_tracks (lines 393-408), the title, or the
\* language when the title is empty; of analyze_attachments (lines 563-564),
\* the title.
sort_key(which, pair) ==
    IF which = "sub" /\ stream_title(pair[2]) = <<>>
    THEN stream_language(pair[2])
    ELSE stream_title(pair[2])

IsSortedByKey(seq, which) ==
    \A i \in 1..(Len(seq) - 1) :
        StrLeq(sort_key(which, seq[i]), sort_key(which, seq[i + 1]))

\* slice::sort_unstable_by_key: the elements ordered by key; the order of
\* elements with equal keys is unspecified, so every key-sorted arrangement
\* is a possible outcome.
sort_unstable_by_key(seq, which) ==
    IF Len(seq) = 0
    THEN {<<>>}
    ELSE {r \in {[k \in 1..Len(seq) |-> seq[p[k]]] : p \in Permutations(1..Len(seq))} :
             IsSortedByKey(r, which)}

dedup_keeping_all(seq, which) == seq

\* Vec::dedup_by_key: of each run of consecutive elements with equal keys,
\* only the first stays.
dedup_by_key(seq, which) ==
    LET keep(i) == i = 1 \/ sort_key(which, seq[i]) # sort_key(which, seq[i - 1])
        idx == {i \in 1..Len(seq) : keep(i)}
        nth[k \in 1..Cardinality(idx)] ==
            CHOOSE i \in idx : Cardinality({j \in idx : j <= i}) = k
    IN  [k \in 1..Cardinality(idx) |-> seq[nth[k]]]

has_ass_never(preserved) == FALSE

\* Lines 410-413.
has_ass(preserved) ==
    \E i \in 1..Len(preserved) : codec(preserved[i][2]) = ASS_CODEC

\* Lines 418-436: the unwanted-word filter with its Japanese exemption.
sub_words_ok(pair) ==
    LET name == to_lowercase(stream_title(pair[2]))
    IN  IF \/ contains(name, Str_jap)
           \/ contains(name, Str_jpn)
           \/ stream_language(pair[2]) = Str_jpn
        THEN TRUE
        ELSE ~ \E w \in 1..Len(BAD_SUB_WORDS) :
                   name = BAD_SUB_WORDS[w] \/ contains(name, BAD_SUB_WORDS[w])

\* Lines 438-440.
sub_lang_ok(pair) == stream_language(pair[2]) \in OK_SUB_LANGS

\* Lines 442-449.
sub_ass_ok(pair, ass) ==
    IF ass
    THEN codec(pair[2]) = ASS_CODEC \/ stream_language(pair[2]) = Str_jpn
    ELSE TRUE

\* Lines 415-451: the three filters applied in order to the deduplicated list.
filter_subs(preserved) ==
    LET ass == has_ass(preserved)
    IN  SelectSeq(preserved,
                  LAMBDA p : sub_words_ok(p) /\ sub_lang_ok(p) /\ sub_ass_ok(p, ass))

\* analyze_sub_tracks, lines 375-476: every outcome the sort allows, each with
\* preserved_streams as it stands after line 408 and the returned list.
\* With exactly one subtitle stream the function returns before sorting.
analyze_sub_tracks(m) ==
    LET all_streams == subtitles_streams(m)
    IN  IF Len(all_streams) = 1
        THEN {[after_dedup |-> <<>>, result |-> enumerate(all_streams)]}
        ELSE {[after_dedup |-> dedup_by_key(sorted, "sub"),
               result |-> filter_subs(dedup_by_key(sorted, "sub"))] :
                 sorted \in sort_unstable_by_key(enumerate(all_streams), "sub")}

\* Lines 493-496.
audio_lang_ok(pair) ==
    LET l == stream_language(pair[2])
    IN  l = <<>> \/ l = Str_jpn \/ l = Str_chi \/ l = Str_und

\* Lines 498-501.
audio_title_ok(pair) ==
    LET stream_name == to_lowercase(stream_title(pair[2]))
    IN  /\ ~contains(stream_name, Str_commentary)
        /\ ~contains(stream_name, Str_description)
        /\ (~contains(stream_name, Str_eng) \/ ~contains(stream_name, Str_english))

\* Lines 489-503.
filter_audio(all_streams) ==
    SelectSeq(enumerate(all_streams), LAMBDA p : audio_lang_ok(p) /\ audio_title_ok(p))

prefer_stereo_skipped(preserved) == preserved

\* Lines 505-519.
prefer_stereo(preserved) ==
    IF Len(preserved) > 1
    THEN LET jpn_stereo ==
                 SelectSeq(preserved,
                           LAMBDA p : channels(p[2]) = 2 \/ channels(p[2]) = 0)
         IN  IF jpn_stereo # <<>> THEN jpn_stereo ELSE preserved
    ELSE preserved

\* analyze_audio_tracks, lines 478-544.
analyze_audio_tracks(m) ==
    LET all_streams == audio_streams(m)
    IN  IF Len(all_streams) = 1
        THEN enumerate(all_streams)
        ELSE prefer_stereo(filter_audio(all_streams))

\* Lines 553-557: fonts, and files without an extension.
is_font(pair) ==
    LET name == to_lowercase(stream_title(pair[2]))
    IN  contains(name, Str_ttf) \/ contains(name, Str_otf) \/ ~contains(name, Str_dot)

\* analyze_attachments, lines 546-574: every outcome the sort allows.
analyze_attachments(m) ==
    LET preserved_attachments == SelectSeq(enumerate(attachments(m)), is_font)
    IN  {dedup_by_key(sorted, "attachment") :
            sorted \in sort_unstable_by_key(preserved_attachments, "attachment")}

---------------------------------------------------------------------------
(* Bounds and the inputs drawn within them.                                *)

MaxSubs == 3
MaxAudio == 3
MaxAttachments == 3
MaxTracks == 3
NumFiles == 2

MiB(n) == n * 2048
GiB(n) == n * 1024 * 2048
Minutes(n) == n * 60

Modes == {"Auto", "Force", "Never"}
DefaultCfg == [intermediate |-> FALSE, preload_mode |-> "Auto", transcode_mode |-> "Auto"]

V(c) == Stream("video", c, Str_und, <<>>, 0)
S(c, l, t) == Stream("subtitle", c, l, t, 0)
A(c, l, t, ch) == Stream("audio", c, l, t, ch)
T(c, f) == Stream("attachment", c, <<>>, f, 0)

\* Files for the video decision: sizes on both sides of 600 MiB and of 5 GiB,
\* durations on both sides of 55 minutes, target and other codecs; the first
\* video stream is not always the first stream, nor the only video stream.
VideoSizes == {MiB(400), MiB(600) - 1, MiB(600), MiB(900), GiB(5), GiB(5) + 1, GiB(6)}
VideoDurations == {Minutes(24), Minutes(55) - 1, Minutes(55), Minutes(120)}
VideoLayouts ==
    {<<V(c)>> : c \in {"av1", "h264", "hevc"}}
    \cup {<<A("aac", Str_jpn, <<>>, 2), V(c), V("mjpeg")>> : c \in {"av1", "h264"}}
VideoFiles ==
    {[size |-> sz, duration |-> d, streams |-> l] :
        sz \in VideoSizes, d \in VideoDurations, l \in VideoLayouts}

S_assEng == S("ass", Str_eng, <<>>)
S_pgsEng == S("hdmv_pgs_subtitle", Str_eng, <<>>)
S_assSigns == S("ass", Str_eng, T_Signs)
S_pgsSigns == S("hdmv_pgs_subtitle", Str_eng, T_Signs)
S_pgsJpn == S("hdmv_pgs_subtitle", Str_jpn, <<>>)
S_assFre == S("ass", Str_fre, <<>>)
S_srtFull == S("subrip", Str_eng, T_Full)
S_srtTitledEng == S("subrip", Str_und, Str_eng)
SubPool ==
    {S_assEng, S_pgsEng, S_assSigns, S_pgsSigns, S_pgsJpn, S_assFre, S_srtFull,
     S_srtTitledEng}

A_jpn51 == A("aac", Str_jpn, <<>>, 6)
A_jpn20 == A("aac", Str_jpn, <<>>, 2)
A_eng20 == A("aac", Str_eng, <<>>, 2)
A_jpnCommentary == A("flac", Str_jpn, T_Commentary, 2)
A_jpnEngDub == A("aac", Str_jpn, T_EngDub, 2)
A_jpnEnglish == A("aac", Str_jpn, T_English, 6)
A_undUnknown == A("dts", Str_und, <<>>, 0)
A_noLang71 == A("truehd", <<>>, <<>>, 8)
AudioPool ==
    {A_jpn51, A_jpn20, A_eng20, A_jpnCommentary, A_jpnEngDub, A_jpnEnglish,
     A_undUnknown, A_noLang71}

\* Attachments: two of the same filename that differ in codec, an upper-case
\* name, an image, and a file without an extension.
T_a_ttf == T("ttf", F_a_ttf)
T_a_ttf_bis == T("otf", F_a_ttf)
T_A_TTF == T("ttf", F_A_TTF)
T_b_otf == T("otf", F_b_otf)
T_cover == T("mjpeg", F_cover_jpg)
T_font == T("bin_data", F_font)
AttachmentPool == {T_a_ttf, T_a_ttf_bis, T_A_TTF, T_b_otf, T_cover, T_font}

SeqsUpTo(pool, n) == UNION {[1..k -> pool] : k \in 0..n}

\* A probed file whose streams are one video stream followed by the given ones.
FileWith(tracks) ==
    [size |-> MiB(900), duration |-> Minutes(24), streams |-> <<V("h264")>> \o tracks]

SubFiles == {FileWith(t) : t \in SeqsUpTo(SubPool, MaxSubs)}
AudioFiles == {FileWith(t) : t \in SeqsUpTo(AudioPool, MaxAudio)}
AttachmentFiles == {FileWith(t) : t \in SeqsUpTo(AttachmentPool, MaxAttachments)}

\* Files for the command builder: tracks of the three categories in any
\* order and number, none of a category included.
TrackPool ==
    {S_assEng, S_pgsEng, S_assFre, A_jpn20, A_jpn51, A_undUnknown, T_a_ttf, T_b_otf, T_cover}
CommandFiles == {FileWith(t) : t \in SeqsUpTo(TrackPool, MaxTracks)}

---------------------------------------------------------------------------
(* State of the batch before the first file, and of the selection locals.  *)

Files == 1..NumFiles

\* File contents are byte sequences; NoFile marks a name with no file.
NoFile == <<-1>>
Contents == {<<>>, <<0>>, <<1>>}
\* What the encoder leaves in its output file: nothing yet, or its stream.
EncoderOutputs == {<<>>, <<0>>}
\* What a copy that returns Ok can leave at the destination: the source's
\* contents, fewer bytes, or as many bytes with some of them changed.
CopyOutcomes(src) == {c \in Contents : Len(c) <= Len(src)}
\* The bytes of a source file, as fs::read returns them.
FileBytes == <<1>>

NoMkv == [size |-> 0, duration |-> 0, streams |-> <<>>]
NoFin ==
    [ran |-> FALSE, file |-> 0, transcoded |-> FALSE, staged |-> NoFile,
     copied |-> NoFile, src_read |-> FALSE, dst_read |-> FALSE, removed |-> FALSE]
NoHist == [probe |-> "none", spawn |-> "none", exit |-> "none"]

RunInit ==
    /\ file_idx = 1
    /\ file_buffer = <<>>
    /\ input_arg = "none"
    /\ ffmpeg_arguments = <<>>
    /\ ffmpeg = "none"
    /\ writer = [f \in Files |-> "none"]
    /\ inter_dir = [f \in Files |-> NoFile]
    /\ out_dir = [f \in Files |-> NoFile]
    /\ fin = NoFin
    /\ hist = [f \in Files |-> NoHist]

SelInit ==
    /\ kept_subs = <<>>
    /\ subs_after_dedup = <<>>
    /\ kept_audio = <<>>
    /\ kept_attachments = <<>>

---------------------------------------------------------------------------
(* The selection functions applied to drawn files.                         *)

InitVideo ==
    /\ cfg \in {[DefaultCfg EXCEPT !.transcode_mode = m] : m \in Modes}
    /\ mkv \in VideoFiles
    /\ pc = "select"
    /\ transcode_video = FALSE
    /\ SelInit
    /\ RunInit

\* Lines 90-94.
DecideVideo ==
    /\ pc = "select"
    /\ transcode_video' = transcode_video_for(cfg.transcode_mode, mkv)
    /\ pc' = "selected"
    /\ UNCHANGED <<cfg, selVars, runVars>>

SpecVideo == InitVideo /\ [][DecideVideo]_vars

InitSubs ==
    /\ cfg = DefaultCfg
    /\ mkv \in SubFiles
    /\ pc = "select"
    /\ transcode_video = FALSE
    /\ SelInit
    /\ RunInit

\* Line 102.
SelectSubs ==
    /\ pc = "select"
    /\ \E o \in analyze_sub_tracks(mkv) :
          /\ kept_subs' = o.result
          /\ subs_after_dedup' = o.after_dedup
    /\ pc' = "selected"
    /\ UNCHANGED <<cfg, mkv, transcode_video, kept_audio, kept_attachments, runVars>>

SpecSubs == InitSubs /\ [][SelectSubs]_vars

InitAudio ==
    /\ cfg = DefaultCfg
    /\ mkv \in AudioFiles
    /\ pc = "select"
    /\ transcode_video = FALSE
    /\ SelInit
    /\ RunInit

\* Line 103.
SelectAudio ==
    /\ pc = "select"
    /\ kept_audio' = analyze_audio_tracks(mkv)
    /\ pc' = "selected"
    /\ UNCHANGED <<cfg, mkv, transcode_video, kept_subs, subs_after_dedup, kept_attachments,
                   runVars>>

SpecAudio == InitAudio /\ [][SelectAudio]_vars

InitAttachments ==
    /\ cfg = DefaultCfg
    /\ mkv \in AttachmentFiles
    /\ pc = "select"
    /\ transcode_video = FALSE
    /\ SelInit
    /\ RunInit

\* Line 104.
SelectAttachments ==
    /\ pc = "select"
    /\ kept_attachments' \in analyze_attachments(mkv)
    /\ pc' = "selected"
    /\ UNCHANGED <<cfg, mkv, transcode_video, kept_subs, subs_after_dedup, kept_audio,
                   runVars>>

SpecAttachments == InitAttachments /\ [][SelectAttachments]_vars

---------------------------------------------------------------------------
(* Probe Collaborator, src/ffprobe/mod.rs and src/ffprobe/mkv.rs.          *)

\* A numeric string of ffprobe's JSON: well-formed digits, or not.
Num(n) == [digits |-> TRUE, value |-> n]
NotANumber == [digits |-> FALSE, value |-> 0]

\* An FFProbeStream; an absent tag is <<>>, a present one <<value>>.
RawStream(type, name) ==
    [codec_type |-> type, codec_name |-> name, channels |-> 0,
     language |-> <<>>, title |-> <<>>, filename |-> <<>>]

\* What running ffprobe on a file can give: the run itself, the JSON, and the
\* fields parse_result reads.
RawProbe(size, vcodec) ==
    [exec_ok |-> TRUE, json_ok |-> TRUE, size |-> Num(size),
     duration |-> Num(Minutes(24)), streams |-> <<RawStream("video", vcodec)>>]

ProbeErrors == {"ExecError", "SerdeError", "NumParseError", "UnknownCodecType"}

\* Option::unwrap_or.
unwrap_or(opt, default) == IF opt = <<>> THEN default ELSE opt[1]

\* Stream::parse_result, mkv.rs lines 79-103.
parse_stream(p) ==
    LET title == unwrap_or(p.title, <<>>)
        language == unwrap_or(p.language, Str_und)
        filename == unwrap_or(p.filename, <<>>)
    IN  CASE p.codec_type \in {"audio", "video", "subtitle"} ->
               [ok |-> TRUE,
                stream |-> Stream(p.codec_type, p.codec_name, language, title, p.channels)]
          [] p.codec_type = "attachment" ->
               [ok |-> TRUE,
                stream |-> Stream("attachment", p.codec_name, <<>>, filename, 0)]
          [] OTHER -> [ok |-> FALSE, err |-> "UnknownCodecType"]

\* MkvFile::parse_result, mkv.rs lines 12-30.
parse_result(probe) ==
    IF ~probe.size.digits \/ ~probe.duration.digits
    THEN [ok |-> FALSE, err |-> "NumParseError"]
    ELSE IF \E i \in 1..Len(probe.streams) : ~parse_stream(probe.streams[i]).ok
    THEN [ok |-> FALSE, err |-> "UnknownCodecType"]
    ELSE [ok |-> TRUE,
          mkv |-> [size |-> probe.size.value,
                   duration |-> probe.duration.value,
                   streams |-> [i \in 1..Len(probe.streams) |->
                                   parse_stream(probe.streams[i]).stream]]]

\* probe_file, mod.rs lines 56-71.
probe_file(raw) ==
    IF ~raw.exec_ok THEN [ok |-> FALSE, err |-> "ExecError"]
    ELSE IF ~raw.json_ok THEN [ok |-> FALSE, err |-> "SerdeError"]
    ELSE parse_result(raw)

GoodProbes ==
    {RawProbe(MiB(900), "h264"), RawProbe(GiB(4), "h264"), RawProbe(MiB(900), "av1")}
ProbeResponses ==
    GoodProbes
    \cup {[RawProbe(MiB(900), "h264") EXCEPT !.exec_ok = FALSE],
          [RawProbe(MiB(900), "h264") EXCEPT !.json_ok = FALSE],
          [RawProbe(MiB(900), "h264") EXCEPT !.size = NotANumber],
          [RawProbe(MiB(900), "h264") EXCEPT !.duration = NotANumber],
          [RawProbe(MiB(900), "h264") EXCEPT !.streams = <<RawStream("data", "bin_data")>>]}

---------------------------------------------------------------------------
(* Batch Driver, Transcode Executor and Output Finalizer:                  *)
(* Cruncher::start_cruncher and main, src/main.rs lines 80-351.            *)

\* seahash::hash, reduced to a polynomial over the bytes; it tells apart all
\* the contents drawn here, as the 64-bit hash does.
RECURSIVE seahash_from(_, _)
seahash_from(h, buf) ==
    IF buf = <<>> THEN h ELSE seahash_from(h * 31 + Head(buf) + 1, Tail(buf))
seahash(buf) == seahash_from(0, buf)

\* Result::unwrap_or_default of fs::read: the bytes, or none when the read failed.
read_or_default(ok, bytes) == IF ok THEN bytes ELSE <<>>

\* preload_file, lines 96-100.
preload_file_for(mode, tv) ==
    CASE mode = "Auto" -> tv
      [] mode = "Force" -> TRUE
      [] mode = "Never" -> FALSE

Terminated == pc \in {"exit", "purged", "panic"}

\* The loop of line 83 moves on; the locals of the iteration are gone.
NextFile ==
    /\ file_idx' = file_idx + 1
    /\ pc' = "probe"
    /\ ffmpeg' = "none"
    /\ file_buffer' = <<>>
    /\ input_arg' = "none"
    /\ ffmpeg_arguments' = <<>>
    /\ transcode_video' = FALSE
    /\ mkv' = NoMkv

Init ==
    /\ cfg \in [intermediate : BOOLEAN, preload_mode : Modes, transcode_mode : Modes]
    /\ pc = "probe"
    /\ mkv = NoMkv
    /\ transcode_video = FALSE
    /\ SelInit
    /\ RunInit

\* Paths: the file's name, the source file, and target_path of lines 238-248.
file_name(f) == ToString(f) \o ".mkv"
source_path(f) == "input/" \o file_name(f)
target_path(intermediate, f) ==
    (IF intermediate THEN "intermediate/" ELSE "output/") \o file_name(f)

\* What fs::read of the source file (line 121) can return: an error, or the
\* bytes the file holds at that moment, which may be none.
ReadOutcomes ==
    {[ok |-> FALSE, buf |-> <<>>], [ok |-> TRUE, buf |-> <<>>], [ok |-> TRUE, buf |-> FileBytes]}

\* Lines 113-148: file_buffer, and the input arguments pushed.  When the read
\* fails, nothing is pushed.
input_delivery(tv, preload_file, size, read, path) ==
    IF tv /\ preload_file /\ size < PreloadLimitBlocks
    THEN IF read.ok
         THEN [file_buffer |-> read.buf, args |-> <<"-i", "pipe:0">>]
         ELSE [file_buffer |-> <<>>, args |-> <<>>]
    ELSE [file_buffer |-> <<>>, args |-> <<"-i", path>>]

\* The arguments pushed by a loop: those of each round, in order.
RECURSIVE Flatten(_)
Flatten(seqs) == IF seqs = <<>> THEN <<>> ELSE Head(seqs) \o Flatten(Tail(seqs))

\* Lines 157-166.
sub_map_args(kept, count) ==
    IF kept # <<>> /\ Len(kept) = count
    THEN <<"-map", "0:s">>
    ELSE Flatten([k \in 1..Len(kept) |-> <<"-map", "0:s:" \o ToString(kept[k][1])>>])

\* Lines 168-182.
audio_map_args(kept) ==
    Flatten([k \in 1..Len(kept) |->
                <<"-map", "0:a:" \o ToString(kept[k][1])>>
                \o (IF codec(kept[k][2]) \in LOSSLESS_AUDIO_CODECS
                    THEN <<"-c:a", "libopus", "-ac", "2">>
                    ELSE <<"-c:a", "copy">>)])

attachment_map_args_without_failsafe(kept, count) ==
    IF Len(kept) = count
    THEN <<"-map", "0:t">>
    ELSE Flatten([k \in 1..Len(kept) |-> <<"-map", "0:t:" \o ToString(kept[k][1])>>])

\* Lines 185-194.
attachment_map_args(kept, count) ==
    IF kept # <<>> /\ Len(kept) = count
    THEN <<"-map", "0:t">>
    ELSE Flatten([k \in 1..Len(kept) |-> <<"-map", "0:t:" \o ToString(kept[k][1])>>])

\* Lines 196-215.
video_codec_args(tv) ==
    IF tv
    THEN <<"-c:v", "libsvtav1", "-crf", "30", "-preset", "7", "-g", "120",
           "-pix_fmt", "yuv420p10le">>
    ELSE <<"-c:v", "copy">>

\* Lines 106-111 and 150-248: ffmpeg_arguments as it is passed to args().
ffmpeg_arguments_for(input_args, m, subs, audio, atts, tv, target) ==
    <<"-hide_banner", "-loglevel", "error", "-progress", "pipe:1", "-y">>
    \o input_args
    \o <<"-map", "0:v:0">>
    \o sub_map_args(subs, Len(subtitles_streams(m)))
    \o audio_map_args(audio)
    \o attachment_map_args(atts, Len(attachments(m)))
    \o video_codec_args(tv)
    \o <<"-c:s", "copy", "-metadata", "title=", "-metadata:s:v", "title=",
         "-metadata:s:a", "title=", "-metadata:s:v", "language=und">>
    \o <<target>>

\* Line 252: the child's stdin is piped when file_buffer holds bytes.
stdin_piped == file_buffer # <<>>

\* Lines 90-248 for the probed file m: the decisions, the three selections,
\* the preload and the argument list.
BuildCommand(m, read) ==
    LET tv == transcode_video_for(cfg.transcode_mode, m)
        preload_file == preload_file_for(cfg.preload_mode, tv)
        input == input_delivery(tv, preload_file, m.size, read, source_path(file_idx))
    IN  /\ transcode_video' = tv
        /\ \E o \in analyze_sub_tracks(m) :
              /\ kept_subs' = o.result
              /\ subs_after_dedup' = o.after_dedup
        /\ kept_audio' = analyze_audio_tracks(m)
        /\ kept_attachments' \in analyze_attachments(m)
        /\ file_buffer' = input.file_buffer
        /\ input_arg' = IF input.args = <<>> THEN "none"
                        ELSE IF input.args[2] = "pipe:0" THEN "pipe:0" ELSE "path"
        /\ ffmpeg_arguments' =
              ffmpeg_arguments_for(input.args, m, kept_subs', kept_audio', kept_attachments',
                                   tv, target_path(cfg.intermediate, file_idx))

\* Lines 83-259: probe the file; on a probe error the `?` of line 88 returns
\* it from start_cruncher.  Otherwise decide, select, preload and build the
\* command.
ProbeAndBuild ==
    /\ pc = "probe"
    /\ file_idx <= NumFiles
    /\ \E raw \in ProbeResponses, read \in ReadOutcomes :
          LET r == probe_file(raw) IN
          IF ~r.ok
          THEN /\ pc' = "returned_err"
               /\ hist' = [hist EXCEPT ![file_idx].probe = r.err]
               /\ UNCHANGED <<mkv, transcode_video, kept_subs, subs_after_dedup, kept_audio,
                              kept_attachments, file_buffer, input_arg, ffmpeg_arguments>>
          ELSE /\ mkv' = r.mkv
               /\ BuildCommand(r.mkv, read)
               /\ hist' = [hist EXCEPT ![file_idx].probe = "ok"]
               /\ pc' = "spawn"
    /\ UNCHANGED <<cfg, file_idx, ffmpeg, writer, inter_dir, out_dir, fin>>

\* Lines 250-275: spawn ffmpeg; with a piped stdin, spawn the thread that
\* writes file_buffer to it (its JoinHandle is dropped).  When the spawn
\* fails, the `if let` of line 261 has no else: the loop moves on.
SpawnFfmpeg ==
    /\ pc = "spawn"
    /\ \E spawned \in BOOLEAN :
          IF spawned
          THEN /\ ffmpeg' = "running"
               /\ writer' = IF stdin_piped
                            THEN [writer EXCEPT ![file_idx] = "running"]
                            ELSE writer
               /\ hist' = [hist EXCEPT ![file_idx].spawn = "ok"]
               /\ pc' = "stdout"
               /\ UNCHANGED <<file_idx, file_buffer, input_arg, ffmpeg_arguments,
                              transcode_video, mkv>>
          ELSE /\ hist' = [hist EXCEPT ![file_idx].spawn = "failed"]
               /\ writer' = writer
               /\ NextFile
    /\ UNCHANGED <<cfg, kept_subs, subs_after_dedup, kept_audio, kept_attachments,
                   inter_dir, out_dir, fin>>

\* The encoder runs on its own: it ends with status 0 having written its
\* output file, or with another status having written some of it or nothing.
FfmpegExit ==
    /\ ffmpeg = "running"
    /\ \E success \in BOOLEAN, wrote \in BOOLEAN, out \in EncoderOutputs :
          /\ success => wrote
          /\ hist' = [hist EXCEPT ![file_idx].exit = IF success THEN "success" ELSE "failure"]
          /\ IF ~wrote
             THEN UNCHANGED <<inter_dir, out_dir>>
             ELSE IF cfg.intermediate
             THEN inter_dir' = [inter_dir EXCEPT ![file_idx] = out] /\ out_dir' = out_dir
             ELSE out_dir' = [out_dir EXCEPT ![file_idx] = out] /\ inter_dir' = inter_dir
    /\ ffmpeg' = "exited"
    /\ UNCHANGED <<cfg, pc, transcode_video, selVars, file_idx, file_buffer, input_arg,
                   ffmpeg_arguments,
                   writer, fin>>

\* Line 273, in the spawned thread: write_all returns, Ok with every byte
\* written or Err (then expect panics this thread alone); either way the
\* thread ends and its end of the pipe is closed.
WriterEnd(f) ==
    /\ ~Terminated
    /\ writer[f] = "running"
    /\ writer' = [writer EXCEPT ![f] = "ended"]
    /\ UNCHANGED <<cfg, pc, transcode_video, selVars, file_idx, file_buffer, input_arg,
                   ffmpeg_arguments,
                   ffmpeg, inter_dir, out_dir, fin, hist>>

\* Lines 277-290: read the progress lines until the encoder closes its stdout.
ReadStdout ==
    /\ pc = "stdout"
    /\ ffmpeg = "exited"
    /\ pc' = "wait"
    /\ UNCHANGED <<cfg, transcode_video, selVars, runVars>>

\* Lines 292-293 and 311-316: wait() for the child.  Ok, whatever the exit
\* status: go on to the copy when there is an intermediate directory, else to
\* the next file.  Err: remove the output file if it exists.
WaitFfmpeg ==
    /\ pc = "wait"
    /\ \E wait_ok \in BOOLEAN, remove_ok \in BOOLEAN :
          LET target == IF cfg.intermediate THEN inter_dir[file_idx] ELSE out_dir[file_idx]
          IN  IF wait_ok
              THEN /\ IF cfg.intermediate
                      THEN /\ pc' = "finalize"
                           /\ UNCHANGED <<file_idx, ffmpeg, file_buffer, input_arg,
                                          ffmpeg_arguments,
                                          transcode_video, mkv>>
                      ELSE NextFile
                   /\ UNCHANGED <<inter_dir, out_dir>>
              ELSE IF target = NoFile
              THEN NextFile /\ UNCHANGED <<inter_dir, out_dir>>
              ELSE IF remove_ok
              THEN /\ NextFile
                   /\ IF cfg.intermediate
                      THEN inter_dir' = [inter_dir EXCEPT ![file_idx] = NoFile]
                           /\ out_dir' = out_dir
                      ELSE out_dir' = [out_dir EXCEPT ![file_idx] = NoFile]
                           /\ inter_dir' = inter_dir
              ELSE /\ pc' = "panic"
                   /\ UNCHANGED <<file_idx, ffmpeg, file_buffer, input_arg,
                                  ffmpeg_arguments, transcode_video,
                                  mkv, inter_dir, out_dir>>
    /\ UNCHANGED <<cfg, kept_subs, subs_after_dedup, kept_audio, kept_attachments, writer,
                   fin, hist>>

\* Lines 293-313, with an intermediate directory: copy the staged file to the
\* output directory (the byte count fs::copy returns is dropped), compare the
\* hashes of what can be read back when the video was transcoded, remove the
\* staged file.  Each expect and the hash check panic the control thread.
\* fs::copy may leave contents other than the staged ones (a short or a
\* corrupted copy); the count it returns is the length of what it wrote.
\* fin records the run: whether the copy returned Ok and what it left, which
\* of the two reads returned Ok, and whether the staged file was removed.
Finalize ==
    /\ pc = "finalize"
    /\ LET staged == inter_dir[file_idx]
           Done(copied, dst, src_read, dst_read, removed) ==
               /\ fin' = [ran |-> TRUE, file |-> file_idx, transcoded |-> transcode_video,
                          staged |-> staged, copied |-> IF copied THEN dst ELSE NoFile,
                          src_read |-> src_read, dst_read |-> dst_read,
                          removed |-> removed]
               /\ out_dir' = IF copied THEN [out_dir EXCEPT ![file_idx] = dst] ELSE out_dir
               /\ IF removed
                  THEN /\ inter_dir' = [inter_dir EXCEPT ![file_idx] = NoFile]
                       /\ NextFile
                  ELSE /\ pc' = "panic"
                       /\ UNCHANGED <<inter_dir, file_idx, ffmpeg, file_buffer, input_arg,
                                      ffmpeg_arguments,
                                      transcode_video, mkv>>
       IN  \/ \* fs::copy fails (always so when there is no staged file).
              Done(FALSE, NoFile, FALSE, FALSE, FALSE)
           \/ \* fs::copy returns Ok; no hash check when the video was copied.
              /\ staged # NoFile
              /\ ~transcode_video
              /\ \E dst \in CopyOutcomes(staged), remove_ok \in BOOLEAN :
                    Done(TRUE, dst, FALSE, FALSE, remove_ok)
           \/ \* fs::copy returns Ok; both files are read back and hashed.
              /\ staged # NoFile
              /\ transcode_video
              /\ \E dst \in CopyOutcomes(staged), src_read \in BOOLEAN, dst_read \in BOOLEAN,
                    remove_ok \in BOOLEAN :
                    LET source_hash == seahash(read_or_default(src_read, staged))
                        target_hash == seahash(read_or_default(dst_read, dst))
                    IN  /\ source_hash # target_hash => ~remove_ok
                        /\ Done(TRUE, dst, src_read, dst_read,
                                source_hash = target_hash /\ remove_ok)
    /\ UNCHANGED <<cfg, kept_subs, subs_after_dedup, kept_audio, kept_attachments, writer,
                   hist>>

\* Lines 320-325: the loop is over, start_cruncher returns Ok.
LoopExit ==
    /\ pc = "probe"
    /\ file_idx > NumFiles
    /\ pc' = "returned_ok"
    /\ UNCHANGED <<cfg, transcode_video, selVars, runVars>>

\* main, lines 338-351: after Ok there is nothing left to do; after Err, with
\* an intermediate directory, every file in it whose lower-cased name contains
\* "mkv" is removed (the names here are those of the batch, which all contain
\* ".mkv"); a failed removal panics.
MainEnd ==
    /\ pc \in {"returned_ok", "returned_err"}
    /\ \E remove_ok \in BOOLEAN :
          IF pc = "returned_ok" \/ ~cfg.intermediate
          THEN pc' = "exit" /\ inter_dir' = inter_dir
          ELSE IF remove_ok \/ \A f \in Files : inter_dir[f] = NoFile
          THEN pc' = "purged" /\ inter_dir' = [f \in Files |-> NoFile]
          ELSE pc' = "panic" /\ inter_dir' = inter_dir
    /\ UNCHANGED <<cfg, transcode_video, selVars, file_idx, file_buffer, input_arg,
                   ffmpeg_arguments,
                   ffmpeg, writer, out_dir, fin, hist>>

Next ==
    \/ ProbeAndBuild
    \/ SpawnFfmpeg
    \/ FfmpegExit
    \/ \E f \in Files : WriterEnd(f)
    \/ ReadStdout
    \/ WaitFfmpeg
    \/ Finalize
    \/ LoopExit
    \/ MainEnd

Spec == Init /\ [][Next]_vars

---------------------------------------------------------------------------
(* The selections and the command builder applied to drawn files.          *)

InitCommand ==
    /\ cfg \in [intermediate : BOOLEAN, preload_mode : Modes, transcode_mode : Modes]
    /\ mkv \in CommandFiles
    /\ pc = "build"
    /\ transcode_video = FALSE
    /\ SelInit
    /\ RunInit

\* Lines 90-248 for the first file of a batch.
BuildFile ==
    /\ pc = "build"
    /\ \E read \in ReadOutcomes : BuildCommand(mkv, read)
    /\ pc' = "built"
    /\ UNCHANGED <<cfg, mkv, file_idx, ffmpeg, writer, inter_dir, out_dir, fin, hist>>

SpecCommand == InitCommand /\ [][BuildFile]_vars

---------------------------------------------------------------------------
(* Claims about the batch, checked under Spec.                             *)

\* C1: a file whose probe fails is skipped: when the run is over every later
\* file of the batch has been processed, and the intermediate directory has
\* not been purged.
C1_ProbeFailureSkipsFile ==
    \A f \in Files :
        hist[f].probe \in ProbeErrors =>
            /\ pc # "purged"
            /\ Terminated => \A g \in Files : g > f => hist[g].probe # "none"

\* C2: a file whose encoder could not be launched or ended with a non-zero
\* status is failed: the finalizer does not run for it, nothing of it is
\* copied to the destination, and no later file is started.
C2_EncoderFailureStopsBatch ==
    \A f \in Files :
        (hist[f].spawn = "failed" \/ hist[f].exit = "failure") =>
            /\ ~(fin.ran /\ fin.file = f)
            /\ cfg.intermediate => out_dir[f] = NoFile
            /\ \A g \in Files : g > f => hist[g].probe = "none"

\* C3: when the copy to the destination reports a byte count other than the
\* staged file's size, the staged file is not taken as finalized, no later
\* file is processed, and the run ends with the intermediate directory
\* purged.
C3_SizeMismatchAbortsAndPurges ==
    (fin.ran /\ fin.copied # NoFile /\ Len(fin.copied) # Len(fin.staged)) =>
        /\ ~fin.removed
        /\ \A g \in Files : g > fin.file => hist[g].probe = "none"
        /\ Terminated => \A f \in Files : inter_dir[f] = NoFile

\* C4: with the video transcoded, the finalizer removes the staged file only
\* when the destination copy's contents equal the staged file's; whenever the
\* two differ (a failed read-back included) the run stops there and the
\* staged file stays.
C4_StagedRemovedOnlyWhenVerified ==
    (fin.ran /\ fin.transcoded /\ fin.copied # NoFile) =>
        /\ fin.removed => fin.copied = fin.staged
        /\ fin.copied # fin.staged => (pc = "panic" /\ inter_dir[fin.file] = fin.staged)

\* C5: the thread writing a file's bytes to the encoder has ended before the
\* control thread goes past waiting for that encoder, to the finalizer or to
\* the next file.
C5_WriterEndedBeforeFileFinished ==
    \A f \in Files :
        writer[f] = "running" => (file_idx = f /\ pc \in {"stdout", "wait"})

---------------------------------------------------------------------------
(* Claims about the video decision, checked under SpecVideo.               *)

\* C6, as stated: in auto mode, a file whose first video stream's codec is
\* not the target codec is always transcoded, whatever its size or duration.
C6_AsStated ==
    (/\ pc = "selected"
     /\ cfg.transcode_mode = "Auto"
     /\ codec(video_streams(mkv)[1]) # "av1")
    => transcode_video = TRUE

\* C6, amended: in auto mode, a file whose first video stream's codec is not
\* the target codec is transcoded exactly when its size is at least 600 MiB,
\* whatever its duration.
C6_NonTargetFrom600MiB ==
    (/\ pc = "selected"
     /\ cfg.transcode_mode = "Auto"
     /\ codec(video_streams(mkv)[1]) # "av1")
    => (transcode_video <=> mkv.size >= MiB(600))

\* A two-hour h264 file of 400 MiB was decided, and is not transcoded.
C6_Witness ==
    /\ pc = "selected"
    /\ cfg.transcode_mode = "Auto"
    /\ codec(video_streams(mkv)[1]) = "h264"
    /\ mkv.size = MiB(400)
    /\ mkv.duration = Minutes(120)
    /\ transcode_video = FALSE

\* C7, as stated: in auto mode, a file already in the target codec is
\* transcoded exactly when its size exceeds the threshold of its duration
\* bucket: 5 GiB from 55 minutes on, 600 MiB below (so a 24-minute file is
\* left alone at 400 MiB and transcoded at 900 MiB).
C7_AsStated ==
    (/\ pc = "selected"
     /\ cfg.transcode_mode = "Auto"
     /\ codec(video_streams(mkv)[1]) = "av1")
    => (transcode_video <=>
           mkv.size > (IF mkv.duration >= Minutes(55) THEN GiB(5) ELSE MiB(600)))

\* C7, amended: in auto mode, a file already in the target codec is never
\* transcoded, whatever its size and duration.
C7_TargetCodecNeverTranscoded ==
    (/\ pc = "selected"
     /\ cfg.transcode_mode = "Auto"
     /\ codec(video_streams(mkv)[1]) = "av1")
    => transcode_video = FALSE

\* The 24-minute, 900 MiB file in the target codec was decided, and is not
\* transcoded.
C7_Witness ==
    /\ pc = "selected"
    /\ cfg.transcode_mode = "Auto"
    /\ codec(video_streams(mkv)[1]) = "av1"
    /\ mkv.size = MiB(900)
    /\ mkv.duration = Minutes(24)
    /\ transcode_video = FALSE

---------------------------------------------------------------------------
(* Claims about subtitle selection, checked under SpecSubs.                *)

\* C8: when two or more subtitle tracks share a dedup key (the title, or the
\* language when the title is empty), exactly one track with that key is left
\* after deduplication, and the returned selection never holds two tracks
\* with the same key.
C8_OneTrackPerKey ==
    pc = "selected" =>
        LET all == subtitles_streams(mkv)
            KeyOf(s) == IF s.title = <<>> THEN s.language ELSE s.title
        IN  /\ \A i, j \in 1..Len(kept_subs) :
                  i # j => KeyOf(kept_subs[i][2]) # KeyOf(kept_subs[j][2])
            /\ \A a, b \in 1..Len(all) :
                  (a # b /\ KeyOf(all[a]) = KeyOf(all[b])) =>
                      Cardinality({k \in 1..Len(subs_after_dedup) :
                                      KeyOf(subs_after_dedup[k][2]) = KeyOf(all[a])}) = 1

\* Two tracks of the file share a key, and a track with that key is selected.
C8_Witness ==
    /\ pc = "selected"
    /\ LET all == subtitles_streams(mkv)
           KeyOf(s) == IF s.title = <<>> THEN s.language ELSE s.title
       IN  \E a, b \in 1..Len(all) :
              /\ a # b
              /\ KeyOf(all[a]) = KeyOf(all[b])
              /\ \E k \in 1..Len(kept_subs) : KeyOf(kept_subs[k][2]) = KeyOf(all[a])

\* C9: on a file with more than one subtitle track, if a selected subtitle is
\* ASS-coded then every selected subtitle is ASS-coded or Japanese-language.
C9_AssOrJapanese ==
    (/\ pc = "selected"
     /\ Len(subtitles_streams(mkv)) > 1
     /\ \E k \in 1..Len(kept_subs) : kept_subs[k][2].codec = "ass")
    => \A k \in 1..Len(kept_subs) :
          kept_subs[k][2].codec = "ass" \/ kept_subs[k][2].language = Str_jpn

\* An ASS track and a Japanese bitmap track are selected, and the English
\* text track that passes the word and language filters is not.
C9_Witness ==
    /\ pc = "selected"
    /\ subtitles_streams(mkv) = <<S_assEng, S_srtFull, S_pgsJpn>>
    /\ kept_subs = <<<<0, S_assEng>>, <<2, S_pgsJpn>>>>

---------------------------------------------------------------------------
(* Claims about audio selection, checked under SpecAudio.                  *)

\* C10: on a file with more than one audio track, when more than one track
\* passes the language and title filters and some of those have 2 or 0
\* channels, the selection is exactly those, in file order; 5.1 Japanese,
\* stereo Japanese and English give the stereo Japanese track alone.
C10_StereoSubset ==
    pc = "selected" =>
        LET all == audio_streams(mkv)
            remaining == {i \in 0..(Len(all) - 1) :
                             /\ audio_lang_ok(<<i, all[i + 1]>>)
                             /\ audio_title_ok(<<i, all[i + 1]>>)}
            stereo == {i \in remaining : all[i + 1].channels \in {0, 2}}
        IN  /\ (Len(all) > 1 /\ Cardinality(remaining) > 1 /\ stereo # {}) =>
                  /\ {kept_audio[k][1] : k \in 1..Len(kept_audio)} = stereo
                  /\ \A k \in 1..Len(kept_audio) :
                        /\ kept_audio[k][2] = all[kept_audio[k][1] + 1]
                        /\ k > 1 => kept_audio[k - 1][1] < kept_audio[k][1]
            /\ all = <<A_jpn51, A_jpn20, A_eng20>> => kept_audio = <<<<1, A_jpn20>>>>

\* The three-track scenario was selected from: stereo Japanese alone is kept.
C10_Witness ==
    /\ pc = "selected"
    /\ audio_streams(mkv) = <<A_jpn51, A_jpn20, A_eng20>>
    /\ kept_audio = <<<<1, A_jpn20>>>>

---------------------------------------------------------------------------
(* Further claims about audio and subtitle selection.                      *)

\* C13: on a file with more than one audio track, a track whose language
\* passes the allow-list and whose lower-cased title contains "eng" or
\* "english" is not selected.
C13_EngTitledTrackExcluded ==
    (pc = "selected" /\ Len(audio_streams(mkv)) > 1) =>
        LET all == audio_streams(mkv)
        IN  \A i \in 0..(Len(all) - 1) :
               (/\ audio_lang_ok(<<i, all[i + 1]>>)
                /\ \/ contains(to_lowercase(all[i + 1].title), Str_eng)
                   \/ contains(to_lowercase(all[i + 1].title), Str_english))
               => \A k \in 1..Len(kept_audio) : kept_audio[k][1] # i

\* C14: on a file with more than one subtitle track, when none of the streams
\* left by deduplication, the unwanted-word filter and the language filter is
\* ASS-coded, the selection is exactly those streams: the ASS-preference
\* filter drops nothing.
C14_AssFilterTriggeredByRetained ==
    (pc = "selected" /\ Len(subtitles_streams(mkv)) > 1) =>
        LET retained ==
                SelectSeq(subs_after_dedup, LAMBDA p : sub_words_ok(p) /\ sub_lang_ok(p))
        IN  (\A k \in 1..Len(retained) : retained[k][2].codec # "ass")
            => kept_subs = retained

---------------------------------------------------------------------------
(* Claims about attachment selection, checked under SpecAttachments.       *)

\* C11: the selection is the font attachments sorted by title, one entry per
\* distinct title, that entry being the first occurrence of the title (the
\* lowest index among the attachments of that title); so the result, indices
\* included, is determined by the file.
C11_FirstOccurrencePerTitle ==
    pc = "selected" =>
        LET all == attachments(mkv)
            fonts == {i \in 0..(Len(all) - 1) : is_font(<<i, all[i + 1]>>)}
            first == {i \in fonts :
                         \A j \in fonts : all[j + 1].title = all[i + 1].title => i <= j}
        IN  /\ Len(kept_attachments) = Cardinality(first)
            /\ {kept_attachments[k][1] : k \in 1..Len(kept_attachments)} = first
            /\ \A k \in 1..Len(kept_attachments) :
                  /\ kept_attachments[k][2] = all[kept_attachments[k][1] + 1]
                  /\ k > 1 => StrLeq(kept_attachments[k - 1][2].title,
                                     kept_attachments[k][2].title)

---------------------------------------------------------------------------
(* Claims about the command builder.                                       *)

\* C12: the argument list holds no bulk map of a category of which nothing
\* was selected: no "0:s" without a selected subtitle, no "0:a" without a
\* selected audio track, no "0:t" without a selected attachment, whether or
\* not the file has tracks of that category.
C12_NoBulkMapOfNothing ==
    pc = "built" =>
        LET has_arg(a) == \E k \in 1..Len(ffmpeg_arguments) : ffmpeg_arguments[k] = a
        IN  /\ kept_subs = <<>> => ~has_arg("0:s")
            /\ kept_audio = <<>> => ~has_arg("0:a")
            /\ kept_attachments = <<>> => ~has_arg("0:t")

\* A command was built for a file without subtitle tracks, with one audio
\* track, and with one attachment of which the selection kept nothing.
C12_Witness ==
    /\ pc = "built"
    /\ mkv.streams = <<V("h264"), T_cover, A_jpn20>>
    /\ kept_subs = <<>>
    /\ kept_attachments = <<>>
    /\ \E k \in 1..Len(ffmpeg_arguments) : ffmpeg_arguments[k] = "0:a:0"
    /\ \A k \in 1..Len(ffmpeg_arguments) : ffmpeg_arguments[k] \notin {"0:s", "0:t"}

\* C15: the argument list built for a file holds exactly one "-i", followed
\* either by "pipe:0", with the child's stdin piped and file_buffer holding
\* the file's bytes, or by the source path, with no piped stdin.
C15_OneInputMatchingDelivery ==
    pc = "spawn" =>
        LET inputs == {k \in 1..Len(ffmpeg_arguments) : ffmpeg_arguments[k] = "-i"}
        IN  /\ Cardinality(inputs) = 1
            /\ \A k \in inputs :
                  \/ /\ ffmpeg_arguments[k + 1] = "pipe:0"
                     /\ stdin_piped
                     /\ file_buffer = FileBytes
                  \/ /\ ffmpeg_arguments[k + 1] = source_path(file_idx)
                     /\ ~stdin_piped

\* C16: in each of the three selections, every pair (i, s) has i below the
\* number of tracks of the kind and s the i-th track of the kind in file
\* order, and no two pairs have the same i.
C16_IndicesAreFilePositions ==
    pc = "built" =>
        LET Stable(kept, all) ==
                \A k \in 1..Len(kept) :
                    /\ kept[k][1] \in 0..(Len(all) - 1)
                    /\ kept[k][2] = all[kept[k][1] + 1]
                    /\ \A j \in 1..Len(kept) : j # k => kept[j][1] # kept[k][1]
        IN  /\ Stable(kept_subs, subtitles_streams(mkv))
            /\ Stable(kept_audio, audio_streams(mkv))
            /\ Stable(kept_attachments, attachments(mkv))

\* The second subtitle track of a file, behind an attachment, is the only one
\* selected, and the two fonts are selected in title order, not file order.
C16_Witness ==
    /\ pc = "built"
    /\ \/ /\ mkv.streams = <<V("h264"), S_assFre, T_cover, S_assEng>>
          /\ kept_subs = <<<<1, S_assEng>>>>
       \/ /\ mkv.streams = <<V("h264"), T_b_otf, A_jpn51, T_a_ttf>>
          /\ kept_attachments = <<<<1, T_a_ttf>>, <<0, T_b_otf>>>>

=============================================================================
